---- MODULE Spec2Model ----
(***************************************************************************)
(* Notion auto-tagging pipeline: the driver of src/src/main.py             *)
(* (process_records, _infer_with_retry, _should_skip), the taggers of      *)
(* src/src/tagger.py, the write-back of src/src/notion_service.py and the  *)
(* body extraction of src/src/utils.py.                                    *)
(*                                                                         *)
(* Text is a sequence of one-character strings.  Times are whole seconds.  *)
(* process_records receives its collaborators as arguments                 *)
(* (main.py:60-62); each is drawn from the classes of src/ and from an     *)
(* arbitrary object that honours the interface the call sites use.        *)
(***************************************************************************)
EXTENDS Integers, Sequences, FiniteSets, TLC

\* ------------------------------------------------------------------------
\* Bounds of the model
\* ------------------------------------------------------------------------
MaxRecords == 2

MaxRuns == 2

\* ------------------------------------------------------------------------
\* Characters and text
\* ------------------------------------------------------------------------
UpperChars == {"A", "B", "C"}

LowerChars == {"a", "b", "c"}

DigitChars == {"1"}

\* str.strip() and \s of the split pattern (tagger.py:57, 64)
SpaceChars == {" "}

\* the class [\s\-_\.] of tagger.py:64
SepChars == SpaceChars \cup {"-", "_", "."}

upper(c) ==
  CASE c = "a" -> "A" [] c = "b" -> "B" [] c = "c" -> "C" [] OTHER -> c

lower(c) ==
  CASE c = "A" -> "a" [] c = "B" -> "b" [] c = "C" -> "c" [] OTHER -> c

\* str.lower()
str_lower(s) == [k \in 1..Len(s) |-> lower(s[k])]

\* str.capitalize(): first character upper-cased, the rest lower-cased
capitalize(w) ==
  [k \in 1..Len(w) |-> IF k = 1 THEN upper(w[k]) ELSE lower(w[k])]

RECURSIVE lstrip(_)
lstrip(s) ==
  IF s # <<>> /\ Head(s) \in SpaceChars THEN lstrip(Tail(s)) ELSE s

RECURSIVE rstrip(_)
rstrip(s) ==
  IF s # <<>> /\ s[Len(s)] \in SpaceChars
    THEN rstrip(SubSeq(s, 1, Len(s) - 1))
    ELSE s

\* str.strip()
strip(s) == rstrip(lstrip(s))

\* re.match(r"^[A-Z][a-zA-Z0-9]*$", text) on stripped text
MatchesPascal(s) ==
  /\ Len(s) >= 1
  /\ s[1] \in UpperChars
  /\ \A k \in 2..Len(s) : s[k] \in UpperChars \cup LowerChars \cup DigitChars

\* re.split(r"[\s\-_\.]+", text) followed by "if word": the maximal runs of
\* characters that are not separators
RECURSIVE split_words(_, _, _)
split_words(s, cur, acc) ==
  IF s = <<>>
    THEN IF cur = <<>> THEN acc ELSE Append(acc, cur)
    ELSE IF Head(s) \in SepChars
      THEN split_words(Tail(s), <<>>, IF cur = <<>> THEN acc ELSE Append(acc, cur))
      ELSE split_words(Tail(s), Append(cur, Head(s)), acc)

RECURSIVE join_capitalized(_)
join_capitalized(words) ==
  IF words = <<>> THEN <<>>
  ELSE capitalize(Head(words)) \o join_capitalized(Tail(words))

\* tagger.py:55-65
_to_pascal_case(text) ==
  LET t == strip(text) IN
    IF t = <<>> THEN t
    ELSE IF MatchesPascal(t) THEN t
    ELSE join_capitalized(split_words(t, <<>>, <<>>))

\* existing_lower_map[key] of tagger.py:113: a dict comprehension, so the
\* last entry of available_tags with that lower-case form is the one stored
HasExisting(key, available_tags) ==
  \E k \in 1..Len(available_tags) : str_lower(available_tags[k]) = key

\* a lookup that answers with the lower-case key rather than the stored entry
LookupLowered(key, available_tags) == key

existing_lower_map(key, available_tags) ==
  LET last == CHOOSE k \in 1..Len(available_tags) :
                /\ str_lower(available_tags[k]) = key
                /\ \A m \in (k + 1)..Len(available_tags) :
                     str_lower(available_tags[m]) # key
  IN available_tags[last]

\* a loop without the seen set
RECURSIVE LoopKeepingAll(_, _, _, _)
LoopKeepingAll(tags, available_tags, normalized, seen) ==
  IF tags = <<>> THEN normalized
  ELSE
    LET pascal0 == _to_pascal_case(Head(tags))
        lower_key == str_lower(pascal0)
        pascal == IF HasExisting(lower_key, available_tags)
                    THEN existing_lower_map(lower_key, available_tags)
                    ELSE pascal0
    IN LoopKeepingAll(Tail(tags), available_tags, Append(normalized, pascal),
                      seen \cup {lower_key})

RECURSIVE normalize_loop(_, _, _, _)
normalize_loop(tags, available_tags, normalized, seen) ==
  IF tags = <<>> THEN normalized
  ELSE
    LET pascal0 == _to_pascal_case(Head(tags))
        lower_key == str_lower(pascal0)
        pascal == IF HasExisting(lower_key, available_tags)
                    THEN existing_lower_map(lower_key, available_tags)
                    ELSE pascal0
    IN IF lower_key \notin seen
         THEN normalize_loop(Tail(tags), available_tags,
                             Append(normalized, pascal), seen \cup {lower_key})
         ELSE normalize_loop(Tail(tags), available_tags, normalized, seen)

\* tagger.py:110-126
_normalize_tags(tags, available_tags) ==
  normalize_loop(tags, available_tags, <<>>, {})

\* ------------------------------------------------------------------------
\* Body extraction (utils.py)
\* ------------------------------------------------------------------------
RECURSIVE join_lines(_)
join_lines(lines) ==
  IF lines = <<>> THEN <<>>
  ELSE IF Len(lines) = 1 THEN Head(lines)
  ELSE Head(lines) \o <<"\n">> \o join_lines(Tail(lines))

\* a loop that appends the block that does not fit without cutting it
RECURSIVE LoopWithoutCut(_, _, _, _)
LoopWithoutCut(texts, max_chars, lines, total) ==
  IF texts = <<>> THEN lines
  ELSE
    LET text == Head(texts) IN
      IF text = <<>> THEN LoopWithoutCut(Tail(texts), max_chars, lines, total)
      ELSE IF total + Len(text) > max_chars
        THEN Append(lines, text)
        ELSE LoopWithoutCut(Tail(texts), max_chars, Append(lines, text),
                            total + Len(text) + 1)

\* the loop of utils.py:51-61 over the texts extract_block_text returned
RECURSIVE body_loop(_, _, _, _)
body_loop(texts, max_chars, lines, total) ==
  IF texts = <<>> THEN lines
  ELSE
    LET text == Head(texts) IN
      IF text = <<>> THEN body_loop(Tail(texts), max_chars, lines, total)
      ELSE IF total + Len(text) > max_chars
        THEN LET remaining == max_chars - total IN
               IF remaining > 0
                 THEN Append(lines, SubSeq(text, 1, remaining))
                 ELSE lines
        ELSE body_loop(Tail(texts), max_chars, Append(lines, text),
                       total + Len(text) + 1)

\* utils.py:44-62
extract_body_content(texts, max_chars) ==
  join_lines(body_loop(texts, max_chars, <<>>, 0))

\* ------------------------------------------------------------------------
\* Taggers (tagger.py)
\* ------------------------------------------------------------------------
\* the exception class main.py imports and catches
RateLimitError == "RateLimitError"

NoTags == <<>>

Returned(sig, tags) == [sig |-> sig, kind |-> "return", tags |-> tags, exc |-> "none"]

Raised(sig, exc) == [sig |-> sig, kind |-> "raise", tags |-> NoTags, exc |-> exc]

\* raw tag lists an LLM answer may carry
RawTagLists ==
  { <<>>,
    << <<"a", "b">>, <<"A", "B">>, <<"c", "-", "a">> >>,
    << <<"a">>, <<"b">>, <<"c">>, <<"a", "a">>, <<"b", "b">>, <<"c", "c">> >> }

\* what the provider call of infer_tags can do: answer with text that is a
\* JSON object with a tags list, a JSON object without the key, text that is
\* not JSON; or fail because the provider throttles (HTTP 429)
ProviderSignals ==
  { [kind |-> "json", haskey |-> TRUE, tags |-> t] : t \in RawTagLists }
  \cup { [kind |-> k, haskey |-> FALSE, tags |-> NoTags] :
           k \in {"json", "malformed", "HTTP429"} }

\* tagger.py:152-157 and 169-181: the provider call, _extract_json,
\* result.get("tags", []) and _normalize_tags; nothing is caught, so a
\* failure of the provider call leaves as the provider library's exception
infer_tags(signal, available_tags) ==
  CASE signal.kind = "HTTP429" -> Raised("HTTP429", "ProviderThrottled")
    [] signal.kind = "malformed" -> Raised("malformed", "JSONDecodeError")
    [] OTHER ->
         Returned("json",
                  _normalize_tags(IF signal.haskey THEN signal.tags ELSE <<>>,
                                  available_tags))

\* an object with an infer_tags method that is not one of the two classes:
\* it returns a tag list, raises RateLimitError, or raises something else
DoubleTaggerOutcomes ==
  { Returned("n/a", << <<"A", "b">> >>),
    Raised("n/a", RateLimitError),
    Raised("n/a", "ProviderError") }

TaggerClasses == {"GeminiTagger", "ClaudeTagger"}

\* the available_tags handed to the tagger (main.py:156-161)
Vocabulary == << <<"A", "B">> >>

\* everything infer_tags of the two classes can do
ClassTaggerOutcomes == { infer_tags(sig, Vocabulary) : sig \in ProviderSignals }

\* the outcomes of one call tagger.infer_tags(content)
TaggerCall(t) ==
  IF t \in TaggerClasses THEN ClassTaggerOutcomes ELSE DoubleTaggerOutcomes

\* a second call has an outcome only after a first call that failed
SecondCall(t, o1) == IF o1.kind = "raise" THEN TaggerCall(t) ELSE {o1}

\* ------------------------------------------------------------------------
\* Configuration and record store (config.py, notion_service.py)
\* ------------------------------------------------------------------------
\* seconds in an hour: the divisor of main.py:54
Hour == 3600

\* default of the hours argument of process_records
DefaultHours == 24

\* the character budget of the body used in the model (Config.body_max_chars)
BodyMaxChars == 4

\* the attributes a Config instance has (config.py:7-15)
ConfigAttributes ==
  { "notion_api_key", "notion_database_id", "gemini_api_key", "claude_api_key",
    "llm_provider", "tag_property_name", "content_properties",
    "fetch_page_body", "body_max_chars" }

\* reading config.<name>: a Config instance has only its declared attributes
HasAttribute(cfg, name) == cfg.class # "Config" \/ name \in ConfigAttributes

\* the parameters of NotionDB.update_tags (notion_service.py:98)
UpdateTagsParameters == {"page_id", "tag_property", "tags"}

\* the keyword argument of the call at main.py:98-103
UpdateTagsKeywords == {"tagged_at_property"}

AbsentTime == [kind |-> "absent", t |-> 0]

UnparseableTime == [kind |-> "unparseable", t |-> 0]

At(t) == [kind |-> "time", t |-> t]

\* notion_service.py:98-107 called as at main.py:98-103.  api is the answer
\* of the store to pages.update.  The call binds its arguments first: a
\* keyword the signature does not have raises TypeError before the body runs.
\* The body sets the multi_select property and nothing else; the store
\* stamps last_edited_time itself.
NotionDB_update_tags(page, tags, keywords, now, api) ==
  IF ~(keywords \subseteq UpdateTagsParameters)
    THEN [exc |-> "TypeError", page |-> page]
    ELSE IF api = "ok"
      THEN [exc |-> "none",
            page |-> [page EXCEPT !.tags = tags, !.last_edited_time = At(now)]]
      ELSE [exc |-> "APIResponseError", page |-> page]

\* writeTags(recordId, tagPropertyName, tags, taggedAtPropertyName) of an
\* object that accepts the call of main.py:98-103: a partial update of the
\* tag list and of the tagged-at property
Double_update_tags(page, tags, keywords, now, api) ==
  IF api = "ok"
    THEN [exc |-> "none",
          page |-> [page EXCEPT !.tags = tags, !.tagged_at = At(now),
                                !.last_edited_time = At(now)]]
    ELSE [exc |-> "StoreError", page |-> page]

update_tags(notion, page, tags, keywords, now, api) ==
  IF notion = "NotionDB"
    THEN NotionDB_update_tags(page, tags, keywords, now, api)
    ELSE Double_update_tags(page, tags, keywords, now, api)

\* ------------------------------------------------------------------------
\* Driver (main.py)
\* ------------------------------------------------------------------------
\* _infer_with_retry without the retry of main.py:35-36
InferWithoutRetry(o1, o2) == [out |-> o1, calls |-> <<o1>>]

\* _infer_with_retry re-raising the first error when the retry fails
InferRaisingFirst(o1, o2) ==
  IF o1.kind = "return" THEN [out |-> o1, calls |-> <<o1>>]
  ELSE IF o1.exc = RateLimitError THEN [out |-> o1, calls |-> <<o1>>]
  ELSE [out |-> IF o2.kind = "raise" THEN o1 ELSE o2, calls |-> <<o1, o2>>]

\* main.py:27-40.  o1 and o2 are what the first and the second call of
\* tagger.infer_tags do; calls lists the calls actually made
_infer_with_retry(o1, o2) ==
  IF o1.kind = "return" THEN [out |-> o1, calls |-> <<o1>>]
  ELSE IF o1.exc = RateLimitError THEN [out |-> o1, calls |-> <<o1>>]
  ELSE [out |-> o2, calls |-> <<o1, o2>>]

\* main.py:43-57
_should_skip(page, hours, now) ==
  IF page.tagged_at.kind = "absent" THEN FALSE
  ELSE IF page.tagged_at.kind = "unparseable" THEN FALSE
  ELSE now - page.tagged_at.t < hours * Hour

\* a body fetch whose failure loses the property text as well
ContentLostWithBody(page, cfg, fetch) ==
  IF cfg.fetch_page_body /\ ~fetch.ok
    THEN [props |-> <<>>, body |-> <<>>]
    ELSE [props |-> page.text,
          body |-> IF cfg.fetch_page_body
                     THEN extract_body_content(fetch.blocks, cfg.body_max_chars)
                     ELSE <<>>]

\* main.py:80-89: whether get_page_blocks was called and how it ended
FetchStatus(cfg, fetch) ==
  IF ~cfg.fetch_page_body THEN "none"
  ELSE IF fetch.ok THEN "ok" ELSE "failed"

\* main.py:78-89: extract_content and the optional body
Content(page, cfg, fetch) ==
  [props |-> page.text,
   body |-> IF cfg.fetch_page_body /\ fetch.ok
              THEN extract_body_content(fetch.blocks, cfg.body_max_chars)
              ELSE <<>>]

\* any(content.values()) of main.py:91
any_content(content) == content.props # <<>> \/ content.body # <<>>

\* main.py:96-113: the try block and the exception that leaves it
TryBlock(notion, page, o1, o2, api, now) ==
  LET r == _infer_with_retry(o1, o2) IN
    IF r.out.kind = "raise"
      THEN [exc |-> r.out.exc, calls |-> r.calls, writes |-> <<>>, page |-> page]
      ELSE LET w == update_tags(notion, page, r.out.tags, UpdateTagsKeywords, now, api)
           IN [exc |-> w.exc, calls |-> r.calls,
               writes |-> << [tags |-> r.out.tags, completed |-> w.exc = "none"] >>,
               page |-> w.page]

\* ------------------------------------------------------------------------
\* State
\* ------------------------------------------------------------------------
VARIABLES
  config,          \* the config argument: its class and the options read
  notion,          \* the notion argument: "NotionDB" or another object
  tagger,          \* the tagger argument: a class of tagger.py or another object
  hours,           \* the hours argument
  now,             \* the clock, in seconds
  store,           \* the pages as the record store holds them
  records,         \* the list process_records iterates
  i,               \* the loop index of main.py:69 (0-based)
  success,
  failed,
  skipped,
  pc,              \* "loop", "returned" or "raised" (an exception left the function)
  outcome,         \* per record: how this run classified it ("none" before)
  inferred,        \* the records tagger.infer_tags was called for in this run
  written,         \* the records notion.update_tags was called for in this run
  sleeps,          \* the number of pacing delays of main.py:115 in this run
  last,            \* what the latest iteration did
  run,             \* the number of the current run
  previous,        \* the outcomes of the run before this one
  edited,          \* the records a user edited between the runs
  call,            \* the arguments of a function applied on its own
  result           \* what that application returned

vars == << config, notion, tagger, hours, now, store, records,
           i, success, failed, skipped, pc, outcome, inferred, written, sleeps,
           last, run, previous, edited, call, result >>

args == << config, notion, tagger, hours >>

pure == << call, result >>

NoCall == [fn |-> "none"]

NoResult == [done |-> FALSE, value |-> FALSE]

NoContent == [props |-> <<>>, body |-> <<>>]

NoIteration ==
  [k |-> 0, guard |-> FALSE, fetch |-> "none", content |-> NoContent,
   calls |-> <<>>, writes |-> <<>>, exc |-> "none", slept |-> FALSE]

StartTime == 30 * Hour

\* the pages a run can meet: tagged a moment ago, never tagged with text,
\* never tagged without text
PageShapes ==
  { [tagged_at |-> At(StartTime - 5), last_edited_time |-> At(StartTime - 5),
     text |-> <<"a">>, tags |-> << <<"A", "B">> >>],
    [tagged_at |-> AbsentTime, last_edited_time |-> At(StartTime - Hour),
     text |-> <<"a">>, tags |-> <<>>],
    [tagged_at |-> AbsentTime, last_edited_time |-> At(StartTime - Hour),
     text |-> <<>>, tags |-> <<>>] }

\* what notion.get_page_blocks(page_id) does: it fails, or returns the texts
\* of the page's blocks
BlockFetches ==
  { [ok |-> FALSE, blocks |-> <<>>],
    [ok |-> TRUE, blocks |-> <<>>],
    [ok |-> TRUE, blocks |-> << <<"a", "b", "c">>, <<"b", "c">> >>] }

NoFetch == [ok |-> FALSE, blocks |-> <<>>]

\* main.py:81: the blocks are fetched only when config.fetch_page_body is set
BodyFetches == IF config.fetch_page_body THEN BlockFetches ELSE {NoFetch}

StoreAnswers == {"ok", "error"}

Init ==
  /\ config \in [class : {"Config", "double"}, fetch_page_body : BOOLEAN,
                 body_max_chars : {BodyMaxChars}]
  /\ notion \in {"NotionDB", "double"}
  /\ tagger \in TaggerClasses \cup {"double"}
  /\ hours = DefaultHours
  /\ now = StartTime
  /\ records \in UNION { [1..n -> PageShapes] : n \in 0..MaxRecords }
  /\ store = records
  /\ i = 0
  /\ success = 0
  /\ failed = 0
  /\ skipped = 0
  /\ pc = "loop"
  /\ outcome = [k \in 1..Len(records) |-> "none"]
  /\ inferred = {}
  /\ written = {}
  /\ sleeps = 0
  /\ last = NoIteration
  /\ run = 1
  /\ previous = outcome
  /\ edited = {}
  /\ call = NoCall
  /\ result = NoResult

\* ------------------------------------------------------------------------
\* process_records: one action per way through the loop body (main.py:69-115)
\* ------------------------------------------------------------------------
Looping == pc = "loop" /\ i < Len(records)

Page == records[i + 1]

\* main.py:73: config.tagged_at_property_name is read for every record; a
\* Config instance has no such attribute and AttributeError leaves the function
AttributeErrorRaised ==
  /\ Looping
  /\ ~HasAttribute(config, "tagged_at_property_name")
  /\ pc' = "raised"
  /\ UNCHANGED << args, pure, now, store, records, i, success, failed, skipped,
                  outcome, inferred, written, sleeps, last, run, previous, edited >>

\* the guard of main.py:73 applied only after the inference call
SkipAfterInference ==
  /\ pc = "loop" /\ i < Len(records)
  /\ HasAttribute(config, "tagged_at_property_name")
  /\ _should_skip(records[i + 1], hours, now)
  /\ \E o1 \in TaggerCall(tagger) :
       last' = [NoIteration EXCEPT !.k = i + 1, !.guard = TRUE, !.calls = <<o1>>]
  /\ inferred' = inferred \cup {i + 1}
  /\ skipped' = skipped + 1
  /\ i' = i + 1
  /\ outcome' = [outcome EXCEPT ![i + 1] = "Skip"]
  /\ UNCHANGED << args, pure, now, store, records, success,
                  failed, pc, written, sleeps, run, previous, edited >>

\* main.py:73-76
SkipAlreadyTagged ==
  /\ Looping
  /\ HasAttribute(config, "tagged_at_property_name")
  /\ _should_skip(Page, hours, now)
  /\ skipped' = skipped + 1
  /\ i' = i + 1
  /\ outcome' = [outcome EXCEPT ![i + 1] = "Skip"]
  /\ last' = [NoIteration EXCEPT !.k = i + 1, !.guard = TRUE]
  /\ UNCHANGED << args, pure, now, store, records, success, failed, pc, inferred,
                  written, sleeps, run, previous, edited >>

\* the empty-content skip followed by the delay of main.py:115
SkipEmptyThenSleep ==
  /\ pc = "loop" /\ i < Len(records)
  /\ HasAttribute(config, "tagged_at_property_name")
  /\ ~_should_skip(records[i + 1], hours, now)
  /\ \E fetch \in BodyFetches :
       LET content == Content(records[i + 1], config, fetch) IN
         /\ ~any_content(content)
         /\ last' = [NoIteration EXCEPT !.k = i + 1, !.content = content,
                                        !.fetch = FetchStatus(config, fetch),
                                        !.slept = TRUE]
  /\ skipped' = skipped + 1
  /\ sleeps' = sleeps + 1
  /\ i' = i + 1
  /\ outcome' = [outcome EXCEPT ![i + 1] = "EmptySkip"]
  /\ UNCHANGED << args, pure, now, store, records, success, failed, pc, inferred,
                  written, run, previous, edited >>

\* main.py:78-94
SkipEmptyContent ==
  /\ Looping
  /\ HasAttribute(config, "tagged_at_property_name")
  /\ ~_should_skip(Page, hours, now)
  /\ \E fetch \in BodyFetches :
       LET content == Content(Page, config, fetch) IN
         /\ ~any_content(content)
         /\ last' = [NoIteration EXCEPT !.k = i + 1, !.content = content,
                                        !.fetch = FetchStatus(config, fetch)]
  /\ skipped' = skipped + 1
  /\ i' = i + 1
  /\ outcome' = [outcome EXCEPT ![i + 1] = "EmptySkip"]
  /\ UNCHANGED << args, pure, now, store, records, success, failed, pc, inferred,
                  written, sleeps, run, previous, edited >>

\* the except clauses without the clause of main.py:106-110
ExceptWithoutAbort(exc, n, idx) ==
  IF exc = "none"
    THEN [success |-> 1, failed |-> 0, break |-> FALSE, outcome |-> "Tagged"]
    ELSE [success |-> 0, failed |-> 1, break |-> FALSE, outcome |-> "Failed"]

\* the abort clause adding all records to failed, not only those left
ExceptCountingAll(exc, n, idx) ==
  IF exc = "none"
    THEN [success |-> 1, failed |-> 0, break |-> FALSE, outcome |-> "Tagged"]
  ELSE IF exc = RateLimitError
    THEN [success |-> 0, failed |-> n, break |-> TRUE, outcome |-> "Aborted"]
  ELSE [success |-> 0, failed |-> 1, break |-> FALSE, outcome |-> "Failed"]

\* main.py:105-113: what the end of the try statement does with the
\* exception that left the try block (idx is the loop index i)
ExceptClauses(exc, n, idx) ==
  IF exc = "none"
    THEN [success |-> 1, failed |-> 0, break |-> FALSE, outcome |-> "Tagged"]
  ELSE IF exc = RateLimitError
    THEN [success |-> 0, failed |-> n - idx, break |-> TRUE, outcome |-> "Aborted"]
  ELSE [success |-> 0, failed |-> 1, break |-> FALSE, outcome |-> "Failed"]

\* main.py:78-115 for a record with content: inference, write-back, the
\* except clauses and the pacing delay; after a break the function returns
TagRecord ==
  /\ Looping
  /\ HasAttribute(config, "tagged_at_property_name")
  /\ ~_should_skip(Page, hours, now)
  /\ \E fetch \in BodyFetches, api \in StoreAnswers :
     \E o1 \in TaggerCall(tagger) :
     \E o2 \in SecondCall(tagger, o1) :
       LET content == Content(Page, config, fetch)
           t == TryBlock(notion, store[i + 1], o1, o2, api, now)
           h == ExceptClauses(t.exc, Len(records), i)
       IN /\ any_content(content)
          /\ store' = [store EXCEPT ![i + 1] = t.page]
          /\ last' = [k |-> i + 1, guard |-> FALSE,
                      fetch |-> FetchStatus(config, fetch), content |-> content,
                      calls |-> t.calls, writes |-> t.writes, exc |-> t.exc,
                      slept |-> ~h.break]
          /\ inferred' = IF t.calls # <<>> THEN inferred \cup {i + 1} ELSE inferred
          /\ written' = IF t.writes # <<>> THEN written \cup {i + 1} ELSE written
          /\ success' = success + h.success
          /\ failed' = failed + h.failed
          /\ outcome' = [k \in 1..Len(records) |->
                           IF k = i + 1 \/ (h.break /\ k > i + 1)
                             THEN h.outcome ELSE outcome[k]]
          /\ IF h.break
               THEN /\ pc' = "returned"
                    /\ UNCHANGED << i, sleeps >>
               ELSE /\ sleeps' = sleeps + 1
                    /\ i' = i + 1
                    /\ pc' = pc
  /\ UNCHANGED << args, pure, now, records, skipped, run, previous, edited >>

\* main.py:117 after the last record
Return ==
  /\ pc = "loop"
  /\ i = Len(records)
  /\ pc' = "returned"
  /\ UNCHANGED << args, pure, now, store, records, i, success, failed, skipped,
                  outcome, inferred, written, sleeps, last, run, previous, edited >>

Next ==
  \/ AttributeErrorRaised
  \/ SkipAlreadyTagged
  \/ SkipEmptyContent
  \/ TagRecord
  \/ Return

Spec == Init /\ [][Next]_vars

TypeOK ==
  /\ pc \in {"loop", "returned", "raised"}
  /\ i \in 0..Len(records)
  /\ success \in Nat /\ failed \in Nat /\ skipped \in Nat

\* ------------------------------------------------------------------------
\* Properties of the driver
\* ------------------------------------------------------------------------
SkipOutcomes == {"Skip", "EmptySkip"}

Count(kinds, upto) == Cardinality({ j \in 1..upto : outcome[j] \in kinds })

IsRateLimit(o) == o.kind = "raise" /\ o.exc = RateLimitError

IsOtherFailure(o) == o.kind = "raise" /\ o.exc # RateLimitError

\* C1: when RateLimitError leaves the tagging of record k of n, the function
\* returns at once: failed is the failures of records 1..k-1 plus n-k+1,
\* success and skipped are those of records 1..k-1, and no record after k
\* sees an inference call or a write-back.
C1_RateLimitAbort ==
  (last.k > 0 /\ last.exc = RateLimitError) =>
    LET k == last.k
        n == Len(records)
    IN /\ pc = "returned"
       /\ failed = Count({"Failed"}, k - 1) + (n - k + 1)
       /\ success = Count({"Tagged"}, k - 1)
       /\ skipped = Count(SkipOutcomes, k - 1)
       /\ \A j \in (k + 1)..n : j \notin inferred /\ j \notin written
       /\ \A j \in (k + 1)..n : store[j] = records[j]

C1_Witness ==
  /\ last.k = 1
  /\ last.exc = RateLimitError
  /\ Len(records) = 2
  /\ failed = 2

\* C2: a record that reaches inference sees at most two calls of the tagger;
\* the second call is made exactly when the first failed with something other
\* than RateLimitError; when the second fails that way too, this record alone
\* is counted as failed and the loop goes on behind it.
C2_OneRetry ==
  (last.k > 0 /\ last.calls # <<>>) =>
    /\ Len(last.calls) <= 2
    /\ (Len(last.calls) = 2 <=> IsOtherFailure(last.calls[1]))
    /\ (Len(last.calls) = 2 /\ IsOtherFailure(last.calls[2])) =>
         /\ outcome[last.k] = "Failed"
         /\ failed = Count({"Failed"}, last.k)
         /\ \A j \in (last.k + 1)..Len(records) : outcome[j] = "none"
         /\ i = last.k
         /\ pc = "returned" => i = Len(records)

C2_Witness ==
  /\ last.k = 1
  /\ Len(last.calls) = 2
  /\ IsOtherFailure(last.calls[2])
  /\ Len(records) = 2
  /\ pc = "loop"
  /\ failed = 1

\* C3: RateLimitError from the first call is followed by no second call, and
\* RateLimitError from the retry is what leaves _infer_with_retry, not the
\* first error; either way the driver's try block is left by RateLimitError.
C3_RateLimitNotRetried ==
  (last.k > 0 /\ last.calls # <<>>) =>
    /\ IsRateLimit(last.calls[1]) =>
         Len(last.calls) = 1 /\ last.exc = RateLimitError
    /\ (Len(last.calls) = 2 /\ IsRateLimit(last.calls[2])) =>
         last.exc = RateLimitError

C3_Witness ==
  /\ Len(last.calls) = 2
  /\ IsOtherFailure(last.calls[1])
  /\ IsRateLimit(last.calls[2])
  /\ last.exc = RateLimitError

\* C4: a call of infer_tags during which the provider signals throttling
\* fails with RateLimitError, so that it is not retried and the run is
\* aborted.
C4_ThrottlingIsRateLimitError ==
  \A c \in 1..Len(last.calls) :
    last.calls[c].sig = "HTTP429" =>
      /\ IsRateLimit(last.calls[c])
      /\ Len(last.calls) = c
      /\ last.exc = RateLimitError
      /\ pc = "returned"

\* C8: a record counted as skipped, by the guard or for empty content, sees
\* no inference call and no write-back, and adds one to skipped and nothing
\* to success or failed.
C8_SkippedUntouched ==
  /\ skipped = Count(SkipOutcomes, Len(records))
  /\ success + failed = Count({"Tagged", "Failed", "Aborted"}, Len(records))
  /\ \A j \in 1..Len(records) :
       outcome[j] \in SkipOutcomes =>
         /\ j \notin inferred
         /\ j \notin written
         /\ store[j] = records[j]
  /\ (last.k > 0 /\ (last.guard \/ ~any_content(last.content))) =>
       /\ outcome[last.k] \in SkipOutcomes
       /\ last.calls = <<>>
       /\ last.writes = <<>>

C8_Witness ==
  /\ Len(records) = 2
  /\ outcome[1] = "Skip"
  /\ outcome[2] = "EmptySkip"
  /\ skipped = 2
  /\ config.fetch_page_body

\* default of the max_tags argument of infer_tags (tagger.py:152, 169)
max_tags == 5

NoCaseDuplicates(tags) ==
  \A a, b \in 1..Len(tags) : a # b => str_lower(tags[a]) # str_lower(tags[b])

\* C9: every tag list handed to the write-back is non-empty, free of
\* case-insensitive duplicates and at most max_tags long.
C9_WrittenTagsWellFormed ==
  \A w \in 1..Len(last.writes) :
    /\ Len(last.writes[w].tags) >= 1
    /\ Len(last.writes[w].tags) <= max_tags
    /\ NoCaseDuplicates(last.writes[w].tags)

StoreErrors == {"APIResponseError", "StoreError"}

\* C10: a record is counted as Tagged only after a completed write-back that
\* set the inferred tags and the tagged-at time on it, and a record whose
\* inference succeeded is counted as Tagged unless the store rejected the
\* update.
C10_TaggedMeansWritten ==
  (last.k > 0 /\ last.writes # <<>>) =>
    /\ outcome[last.k] = "Tagged" =>
         /\ last.writes[1].completed
         /\ store[last.k].tags = last.writes[1].tags
         /\ store[last.k].tagged_at = At(now)
    /\ outcome[last.k] # "Tagged" => last.exc \in StoreErrors

\* ------------------------------------------------------------------------
\* _should_skip applied on its own
\* ------------------------------------------------------------------------
\* the buffer the tests import from main (tests/test_tagger.py:420, 467-489)
TAGGED_AT_BUFFER_SECONDS == 300

\* the driver at rest, for the specifications that apply one function
DriverIdle ==
  /\ config = [class |-> "double", fetch_page_body |-> FALSE,
               body_max_chars |-> BodyMaxChars]
  /\ notion = "double"
  /\ tagger = "double"
  /\ hours = DefaultHours
  /\ now = StartTime
  /\ records = <<>>
  /\ store = <<>>
  /\ i = 0
  /\ success = 0
  /\ failed = 0
  /\ skipped = 0
  /\ pc = "idle"
  /\ outcome = <<>>
  /\ inferred = {}
  /\ written = {}
  /\ sleeps = 0
  /\ last = NoIteration
  /\ run = 1
  /\ previous = <<>>
  /\ edited = {}

driver == << config, notion, tagger, hours, now, store, records, i, success,
             failed, skipped, pc, outcome, inferred, written, sleeps, last,
             run, previous, edited >>

\* seconds between the tagged-at time and last_edited_time of a page
EditDelays ==
  {5, TAGGED_AT_BUFFER_SECONDS - 1, TAGGED_AT_BUFFER_SECONDS, 6 * Hour}

\* seconds between the tagged-at time and the moment of the call
CallDelays == {TAGGED_AT_BUFFER_SECONDS, 7 * Hour, 25 * Hour}

SkipPages ==
  { [tagged_at |-> ta, last_edited_time |-> le, text |-> <<"a">>, tags |-> <<>>] :
      ta \in {AbsentTime, UnparseableTime, At(StartTime)},
      le \in {AbsentTime, UnparseableTime} \cup { At(StartTime + d) : d \in EditDelays } }

\* a page is read no earlier than it was last edited
SkipCalls ==
  { c \in [fn : {"_should_skip"}, page : SkipPages, hours : {1, DefaultHours},
           now : { StartTime + d : d \in CallDelays }] :
      c.page.last_edited_time.kind = "time" => c.page.last_edited_time.t <= c.now }

InitSkip ==
  /\ DriverIdle
  /\ call \in SkipCalls
  /\ result = NoResult

\* _should_skip(page, tagged_at_property, hours) at the moment call.now
ApplyShouldSkip ==
  /\ call.fn = "_should_skip"
  /\ ~result.done
  /\ result' = [done |-> TRUE, value |-> _should_skip(call.page, call.hours, call.now)]
  /\ UNCHANGED << driver, call >>

NextSkip == ApplyShouldSkip

SpecSkip == InitSkip /\ [][NextSkip]_vars

HasTime(x) == x.kind = "time"

\* seconds from tagged-at to last_edited_time, for a page that has both
EditedAfter(page) == page.last_edited_time.t - page.tagged_at.t

\* C5: the guard decides from the page's own timestamps: a page edited 5
\* seconds after its tagged-at time is skipped; a page edited 6 hours after
\* it, a page without tagged-at, and a page one of whose timestamps is
\* missing or unparseable are not skipped.
C5_GuardReadsTimestamps ==
  result.done =>
    LET page == call.page
        both == HasTime(page.tagged_at) /\ HasTime(page.last_edited_time)
    IN /\ (both /\ EditedAfter(page) = 5) => result.value
       /\ (both /\ EditedAfter(page) = 6 * Hour) => ~result.value
       /\ ~both => ~result.value

\* C6: with tagged-at T and buffer B, a page last edited at T+B is not
\* skipped, a page last edited at T+B-1 is skipped, and a page with a
\* tagged-at time and no last_edited_time is not skipped.
C6_StrictAtBuffer ==
  result.done =>
    LET page == call.page
        both == HasTime(page.tagged_at) /\ HasTime(page.last_edited_time)
    IN /\ (both /\ EditedAfter(page) = TAGGED_AT_BUFFER_SECONDS) => ~result.value
       /\ (both /\ EditedAfter(page) = TAGGED_AT_BUFFER_SECONDS - 1) => result.value
       /\ (HasTime(page.tagged_at) /\ page.last_edited_time.kind = "absent") =>
            ~result.value

\* ------------------------------------------------------------------------
\* Consecutive runs over the same records
\* ------------------------------------------------------------------------
\* seconds from the end of a run to a user's edit, and to the next run
EditGap == 6 * Hour

RunGaps == {7 * Hour, 25 * Hour}

\* between two runs: users edit some pages (the store stamps their
\* last_edited_time), time passes, and main lists the records again
\* (main.py:164-177) and calls process_records
BetweenRuns ==
  /\ pc = "returned"
  /\ run < MaxRuns
  /\ \E E \in SUBSET (1..Len(store)), gap \in RunGaps :
       /\ store' = [k \in 1..Len(store) |->
                      IF k \in E
                        THEN [store[k] EXCEPT !.last_edited_time = At(now + EditGap)]
                        ELSE store[k]]
       /\ edited' = E
       /\ now' = now + gap
  /\ records' = store'
  /\ previous' = outcome
  /\ run' = run + 1
  /\ i' = 0
  /\ success' = 0
  /\ failed' = 0
  /\ skipped' = 0
  /\ pc' = "loop"
  /\ outcome' = [k \in 1..Len(store) |-> "none"]
  /\ inferred' = {}
  /\ written' = {}
  /\ sleeps' = 0
  /\ last' = NoIteration
  /\ UNCHANGED << args, pure >>

InitRuns == Init /\ tagger = "double"

NextRuns == Next \/ BetweenRuns

SpecRuns == InitRuns /\ [][NextRuns]_vars

\* the guard of main.py:73 has been applied to record j in this run
Guarded(j) == j <= i \/ j = last.k

MaxTagLen == 2

MaxTagList == 2

\* a letter in both cases and a separator
NormChars == {"a", "A", "-"}

SeqsUpTo(S, n) == UNION { [1..m -> S] : m \in 0..n }

\* the strings an LLM answer may list as tags
NormTags == SeqsUpTo(NormChars, MaxTagLen)

\* the options of the tag property (notion_service.py:73-78)
NormVocabularies ==
  { <<>>, << <<"a", "A">>, <<"A">>, <<"a">> >> }

NormCalls ==
  [fn : {"_normalize_tags"}, tags : SeqsUpTo(NormTags, MaxTagList),
   available_tags : NormVocabularies]

InitNorm ==
  /\ DriverIdle
  /\ call \in NormCalls
  /\ result = [done |-> FALSE, value |-> <<>>]

\* BaseTagger(available_tags)._normalize_tags(tags)
ApplyNormalizeTags ==
  /\ call.fn = "_normalize_tags"
  /\ ~result.done
  /\ result' = [done |-> TRUE,
                value |-> _normalize_tags(call.tags, call.available_tags)]
  /\ UNCHANGED << driver, call >>

NextNorm == ApplyNormalizeTags

SpecNorm == InitNorm /\ [][NextNorm]_vars

\* _normalize_tags applied to a single raw tag that may also hold a digit,
\* white space and a character that is neither alphanumeric nor a separator
CasingChars == NormChars \cup {"1", " ", "#"}

InitCasing ==
  /\ DriverIdle
  /\ call \in [fn : {"_normalize_tags"},
               tags : { <<t>> : t \in SeqsUpTo(CasingChars, MaxTagLen) },
               available_tags : NormVocabularies]
  /\ result = [done |-> FALSE, value |-> <<>>]

SpecCasing == InitCasing /\ [][NextNorm]_vars

\* C11: every element of the list the normalizer returns matches
\* ^[A-Z][A-Za-z0-9]*$.
C11_OutputIsPascalCase ==
  result.done =>
    \A k \in 1..Len(result.value) : MatchesPascal(result.value[k])

\* the lower-case forms under which the tags of the call are tracked
LowerKey == [k \in 1..Len(call.tags) |-> str_lower(_to_pascal_case(call.tags[k]))]

\* the positions of the call's tags that are the first of their lower-case
\* form
FirstOccurrences ==
  LET key == LowerKey IN
    { k \in 1..Len(call.tags) : \A m \in 1..(k - 1) : key[m] # key[k] }

\* the position a first occurrence takes among the first occurrences
Rank(firsts, k) == Cardinality({ m \in firsts : m <= k })

\* the entries of the vocabulary with the given lower-case form
Matching(key) ==
  { call.available_tags[m] : m \in
      { n \in 1..Len(call.available_tags) :
          str_lower(call.available_tags[n]) = key } }

\* C12: the returned list has no two elements equal case-insensitively, and
\* it holds exactly one element per lower-case form of the input, the one of
\* the first occurrence, in the order of the first occurrences.
C12_FirstOccurrenceKept ==
  result.done =>
    LET key == LowerKey
        firsts == FirstOccurrences
        out == result.value
    IN /\ \A j, k \in 1..Len(out) :
            j # k => str_lower(out[j]) # str_lower(out[k])
       /\ Len(out) = Cardinality(firsts)
       /\ \A k \in firsts :
            /\ str_lower(out[Rank(firsts, k)]) = key[k]
            /\ Matching(key[k]) = {} =>
                 out[Rank(firsts, k)] = _to_pascal_case(call.tags[k])

\* two spellings of one tag followed the first one, and one element came back
C12_Witness ==
  /\ result.done
  /\ call.available_tags = <<>>
  /\ Len(call.tags) = MaxTagList
  /\ call.tags[1] # call.tags[MaxTagList]
  /\ _to_pascal_case(call.tags[1]) # _to_pascal_case(call.tags[MaxTagList])
  /\ FirstOccurrences = {1}
  /\ result.value = << _to_pascal_case(call.tags[1]) >>
  /\ result.value # << <<>> >>

\* C13: a candidate that is kept and whose normalized form equals an entry of
\* the vocabulary case-insensitively is returned in that entry's spelling; a
\* kept candidate without such an entry is returned in its normalized form.
C13_VocabularySpellingWins ==
  result.done =>
    LET key == LowerKey
        firsts == FirstOccurrences
        out == result.value
    IN \A k \in firsts :
         IF Matching(key[k]) # {}
           THEN out[Rank(firsts, k)] \in Matching(key[k])
           ELSE out[Rank(firsts, k)] = _to_pascal_case(call.tags[k])

\* a candidate came back in a stored spelling that is not its own normalized
\* form, next to a candidate without an entry
C13_Witness ==
  /\ result.done
  /\ \E k \in FirstOccurrences :
       /\ Matching(LowerKey[k]) # {}
       /\ result.value[Rank(FirstOccurrences, k)] # _to_pascal_case(call.tags[k])
       /\ result.value[Rank(FirstOccurrences, k)] # call.tags[k]
  /\ \E k \in FirstOccurrences :
       /\ Matching(LowerKey[k]) = {}
       /\ _to_pascal_case(call.tags[k]) # call.tags[k]

\* ------------------------------------------------------------------------
\* extract_body_content applied on its own
\* ------------------------------------------------------------------------
MaxBlocks == 2

\* utils.py:4-15
_RICH_TEXT_BLOCK_TYPES ==
  {"paragraph", "heading_1", "heading_2", "heading_3", "bulleted_list_item",
   "numbered_list_item", "quote", "callout", "toggle", "to_do"}

\* utils.py:18-41
extract_block_text(block) ==
  IF block.type \in _RICH_TEXT_BLOCK_TYPES
    THEN block.text
  ELSE IF block.type = "code"
    THEN IF block.language # <<>>
           THEN <<"[">> \o block.language \o <<"]", " ">> \o block.text
           ELSE block.text
  ELSE <<>>

NoLanguage == <<>>

\* blocks as get_page_blocks returns them: rich-text blocks, code blocks
\* with and without a language, and a block type that is not supported
BodyBlocks ==
  [type : {"paragraph"}, text : {<<>>, <<"a">>, <<"a", "b">>, <<"a", "b", "c">>},
   language : {NoLanguage}]
  \cup [type : {"heading_1", "quote"}, text : {<<"b">>}, language : {NoLanguage}]
  \cup [type : {"code"}, text : {<<>>, <<"c">>}, language : {NoLanguage, <<"p">>}]
  \cup [type : {"image"}, text : {<<"a">>}, language : {NoLanguage}]

BodyCalls ==
  [fn : {"extract_body_content"}, blocks : SeqsUpTo(BodyBlocks, MaxBlocks),
   max_chars : 0..BodyMaxChars]

InitBody ==
  /\ DriverIdle
  /\ call \in BodyCalls
  /\ result = [done |-> FALSE, value |-> <<>>]

\* extract_body_content(blocks, max_chars)
ApplyExtractBodyContent ==
  /\ call.fn = "extract_body_content"
  /\ ~result.done
  /\ result' =
       [done |-> TRUE,
        value |-> extract_body_content(
                    [k \in 1..Len(call.blocks) |-> extract_block_text(call.blocks[k])],
                    call.max_chars)]
  /\ UNCHANGED << driver, call >>

NextBody == ApplyExtractBodyContent

SpecBody == InitBody /\ [][NextBody]_vars

IsSupported(block) == block.type \in _RICH_TEXT_BLOCK_TYPES \cup {"code"}

\* the texts of all blocks of the call that have one, joined by newlines
RECURSIVE NonEmpty(_)
NonEmpty(texts) ==
  IF texts = <<>> THEN <<>>
  ELSE IF Head(texts) = <<>> THEN NonEmpty(Tail(texts))
  ELSE <<Head(texts)>> \o NonEmpty(Tail(texts))

FullBody ==
  join_lines(NonEmpty([k \in 1..Len(call.blocks) |->
                         extract_block_text(call.blocks[k])]))

\* C14: the returned string is never longer than max_chars; it is the whole
\* joined text when that fits, and otherwise its first max_chars characters
\* (the block that does not fit is cut to fill the budget, nothing after it is
\* used), or one less when only a separator would remain; it is empty when no
\* block has text.
C14_BodyWithinBudget ==
  result.done =>
    LET full == FullBody
        out == result.value
        max_chars == call.max_chars
    IN /\ Len(out) <= max_chars
       /\ Len(full) <= max_chars => out = full
       /\ Len(full) > max_chars =>
            IF max_chars >= 1 /\ full[max_chars] = "\n"
              THEN out = SubSeq(full, 1, max_chars - 1)
              ELSE out = SubSeq(full, 1, max_chars)
       /\ (\A k \in 1..Len(call.blocks) :
             \/ ~IsSupported(call.blocks[k])
             \/ extract_block_text(call.blocks[k]) = <<>>)
            => out = <<>>

\* a second block was cut to fill what the first one left of the budget
C14_Witness ==
  /\ result.done
  /\ Len(call.blocks) = MaxBlocks
  /\ Len(FullBody) > call.max_chars
  /\ Len(result.value) = call.max_chars
  /\ \E k \in 2..(call.max_chars - 1) : result.value[k] = "\n"

\* ------------------------------------------------------------------------
\* create_tagger applied on its own
\* ------------------------------------------------------------------------
NoKey == ""

ValueError == "ValueError"

NoTagger == [class |-> "none", api_key |-> NoKey, available_tags |-> <<>>]

\* BaseTagger.__init__ (tagger.py:69-70): available_tags or []
Constructed(class, api_key, available_tags) ==
  [kind |-> "return", exc |-> "none",
   tagger |-> [class |-> class, api_key |-> api_key,
               available_tags |-> IF available_tags.given
                                    THEN available_tags.tags ELSE <<>>]]

Failing(exc) == [kind |-> "raise", exc |-> exc, tagger |-> NoTagger]

\* a factory that does not look at the credentials
CreateUnchecked(provider, cfg, available_tags) ==
  IF provider = "claude"
    THEN Constructed("ClaudeTagger", cfg.claude_api_key, available_tags)
    ELSE Constructed("GeminiTagger", cfg.gemini_api_key, available_tags)

\* tagger.py:184-193
create_tagger(provider, cfg, available_tags) ==
  IF provider = "claude"
    THEN IF cfg.claude_api_key = NoKey
           THEN Failing(ValueError)
           ELSE Constructed("ClaudeTagger", cfg.claude_api_key, available_tags)
    ELSE IF cfg.gemini_api_key = NoKey
           THEN Failing(ValueError)
           ELSE Constructed("GeminiTagger", cfg.gemini_api_key, available_tags)

\* values of LLM_PROVIDER (config.py:21) and --llm (main.py:134-146)
ProviderValues == {"gemini", "claude", "Claude", "openai", ""}

\* the available_tags argument: left out, or a list
AvailableTagsArguments ==
  {[given |-> FALSE, tags |-> <<>>]}
  \cup [given : {TRUE}, tags : NormVocabularies]

FactoryCalls ==
  [fn : {"create_tagger"}, provider : ProviderValues,
   config : [gemini_api_key : {NoKey, "g"}, claude_api_key : {NoKey, "c"}],
   available_tags : AvailableTagsArguments]

InitFactory ==
  /\ DriverIdle
  /\ call \in FactoryCalls
  /\ result = [done |-> FALSE, value |-> Failing("none")]

\* create_tagger(provider, config, available_tags)
ApplyCreateTagger ==
  /\ call.fn = "create_tagger"
  /\ ~result.done
  /\ result' = [done |-> TRUE,
                value |-> create_tagger(call.provider, call.config,
                                        call.available_tags)]
  /\ UNCHANGED << driver, call >>

NextFactory == ApplyCreateTagger

SpecFactory == InitFactory /\ [][NextFactory]_vars

\* the class and the credential that belong to a provider value
ProviderClass(provider) ==
  CASE provider = "gemini" -> "GeminiTagger"
    [] provider = "claude" -> "ClaudeTagger"
    [] OTHER -> "none"

ProviderCredential(provider, cfg) ==
  CASE provider = "gemini" -> cfg.gemini_api_key
    [] provider = "claude" -> cfg.claude_api_key
    [] OTHER -> NoKey

\* C16 as stated: for every provider value, create_tagger raises the
\* configuration error when the credential of that provider is absent, and
\* returns the tagger of that provider when it is present.
C16_EveryProviderValue ==
  result.done =>
    IF ProviderCredential(call.provider, call.config) = NoKey
      THEN result.value.kind = "raise" /\ result.value.exc = ValueError
      ELSE /\ result.value.kind = "return"
           /\ result.value.tagger.class = ProviderClass(call.provider)

\* C16: for "claude" create_tagger raises ValueError when claude_api_key is
\* empty and returns a ClaudeTagger holding it otherwise; every other provider
\* value is handled as "gemini": ValueError when gemini_api_key is empty, a
\* GeminiTagger holding it otherwise.
C16_CredentialOfSelectedBranch ==
  result.done =>
    LET claude == call.provider = "claude"
        key == IF claude THEN call.config.claude_api_key
                         ELSE call.config.gemini_api_key
    IN IF key = NoKey
         THEN result.value = Failing(ValueError)
         ELSE /\ result.value.kind = "return"
              /\ result.value.tagger.class =
                   IF claude THEN "ClaudeTagger" ELSE "GeminiTagger"
              /\ result.value.tagger.api_key = key

\* claude was selected without its key while the other key was there, and
\* no tagger came back
C16_Witness ==
  /\ result.done
  /\ call.provider = "claude"
  /\ call.config.claude_api_key = NoKey
  /\ call.config.gemini_api_key # NoKey
  /\ result.value.kind = "raise"
  /\ result.value.tagger = NoTagger

\* ------------------------------------------------------------------------
\* Further properties of the driver
\* ------------------------------------------------------------------------
\* C15: no exception leaves process_records; a failure other than
\* RateLimitError in the handling of a record gives that record a counted
\* outcome and the loop goes on, so a return without a rate-limit abort finds
\* every record classified.
C15_OnlyRateLimitStops ==
  /\ pc # "raised"
  /\ (last.k > 0 /\ last.exc \notin {"none", RateLimitError}) =>
       /\ outcome[last.k] = "Failed"
       /\ i = last.k
       /\ pc = "loop" \/ i = Len(records)
  /\ pc = "returned" =>
       /\ \A k \in 1..Len(records) : outcome[k] # "none"
       /\ (\E k \in 1..Len(records) : outcome[k] = "Aborted")
            => last.exc = RateLimitError

\* C17 as stated: the pacing delay runs after every record that does not end
\* in the rate-limit abort, skipped records included, and not on the abort.
C17_PacedAfterEveryRecord ==
  /\ sleeps = Count({"Tagged", "Failed", "Skip", "EmptySkip"}, Len(records))
  /\ last.k > 0 => (last.slept <=> last.exc # RateLimitError)

\* C17: the pacing delay runs once after every record classified Tagged or
\* Failed, before the next record is taken; it does not run after a record
\* skipped by the guard or for empty content, nor on the rate-limit abort.
C17_PacedAfterTagging ==
  /\ sleeps = Count({"Tagged", "Failed"}, Len(records))
  /\ last.k > 0 =>
       /\ last.slept <=> outcome[last.k] \in {"Tagged", "Failed"}
       /\ last.exc = RateLimitError => ~last.slept
       /\ last.slept => i = last.k

\* a skipped record went by without a delay and the record after it was
\* tagged and followed by one
C17_Witness ==
  /\ Len(records) = 2
  /\ i = 2
  /\ outcome[1] \in SkipOutcomes
  /\ outcome[2] = "Tagged"
  /\ last.slept
  /\ sleeps = 1

\* C18: when get_page_blocks fails for a record, the content is the property
\* text alone; a record with property text still reaches the tagger and is
\* counted Failed only when the inference or the write-back raised, and a
\* record without property text is counted as skipped.
C18_BodyFetchFailureTolerated ==
  (last.k > 0 /\ last.fetch = "failed") =>
    /\ last.content = [props |-> records[last.k].text, body |-> <<>>]
    /\ IF records[last.k].text # <<>>
         THEN /\ last.calls # <<>>
              /\ last.k \in inferred
              /\ outcome[last.k] \in {"Tagged", "Failed", "Aborted"}
              /\ outcome[last.k] = "Tagged" <=> last.exc = "none"
         ELSE /\ outcome[last.k] = "EmptySkip"
              /\ last.calls = <<>>
              /\ skipped = Count(SkipOutcomes, Len(records))

\* the body fetch failed for a record with property text and the record was
\* tagged all the same
C18_Witness ==
  /\ last.k > 0
  /\ last.fetch = "failed"
  /\ config.fetch_page_body
  /\ records[last.k].text # <<>>
  /\ Len(last.calls) = 1
  /\ outcome[last.k] = "Tagged"

CountsAddUp ==
  pc = "returned" =>
    /\ success + failed + skipped = Len(records)
    /\ \A k \in 1..Len(records) : outcome[k] # "none"
    /\ success = Count({"Tagged"}, Len(records))
    /\ failed = Count({"Failed", "Aborted"}, Len(records))
    /\ skipped = Count(SkipOutcomes, Len(records))

CountsGrow ==
  success' >= success /\ failed' >= failed /\ skipped' >= skipped

\* C19: when process_records returns, success + failed + skipped is the
\* number of records and each record is in exactly one of the three counts;
\* and no step of the run decreases one of the three counts.
C19_CountsAddUp == []CountsAddUp /\ [][CountsGrow]_vars

\* a run went on behind a skipped record, met the rate limit at the last
\* record and returned
C19_Witness ==
  /\ pc = "returned"
  /\ Len(records) = MaxRecords
  /\ skipped = 1
  /\ last.k = MaxRecords
  /\ failed = Len(records) - 1
  /\ last.exc = RateLimitError

====
